---------------------------- MODULE Spec2Model ----------------------------
(***************************************************************************)
(* A model of the session-scoped asynchronous MessageBus of                *)
(* src/src/llmgine/bus/bus.py: the handler registry, execute(), publish(), *)
(* start()/stop() and the event processing loop.                           *)
(*                                                                         *)
(* Python strings that are only compared are TLA+ strings; strings that    *)
(* are built and searched (the error text of a failed CommandResult) are   *)
(* sequences of characters.  None is the string "None" for session ids,    *)
(* the record NoSpan for span contexts and 0 for task ids.                 *)
(***************************************************************************)
EXTENDS Integers, Sequences, FiniteSets, TLC

VARIABLES
    command_handlers,  \* self._command_handlers: session -> (type -> handler)
    event_handlers,    \* self._event_handlers: session -> ordered (type, list)
    event_queue,       \* self._event_queue: NoQueue or the queued events
    processing_task,   \* self._processing_task: 0 (None) or a task id
    tasks,             \* every processing task created so far, by id, with
                       \* the event it is handling and its handler tasks
    ctx,               \* contextvars of the caller's task: session and span
    stack,             \* frames of the execute() calls in progress
    counters,          \* how many commands, events, wrappers, ... so far;
                       \* errors: 1 once a handler exception was logged,
                       \* done: calls of self._event_queue.task_done()
    dequeued,          \* history: ids of the events taken from the queue
    lastOp,            \* the last operation called and what it gave its caller
    scopes,            \* the session scopes entered so far: id -> "open",
                       \* "exited" (body completed) or "raised"
    workers,           \* the tasks the application made for execute() calls
                       \* it runs concurrently, each with its own context
    orphans,           \* handler tasks created by a dispatch that failed
                       \* before it reached gather, with their event's id
    contexts,          \* InMemoryContextManager.contexts: conversation ->
                       \* list of messages
    max_context_length,\* InMemoryContextManager.max_context_length
    active_sessions,   \* SessionManager.active_sessions: id -> session
    creating,          \* the create_session calls made so far, with the id
                       \* each has generated and where it is
    stopping           \* the stop() calls suspended in wait_for, each with
                       \* the processing task it has cancelled and waits for

vars == <<command_handlers, event_handlers, event_queue, processing_task,
          tasks, ctx, stack, counters, dequeued, lastOp, scopes, workers,
          orphans, contexts, max_context_length, active_sessions, creating,
          stopping>>

\* the state of the objects beside the bus, and of the calls that are
\* suspended only when tasks call the bus concurrently
components ==
    <<contexts, max_context_length, active_sessions, creating, stopping>>

-----------------------------------------------------------------------------
(* Bounds of the model.                                                    *)

MaxExec == 2        \* execute() calls started
MaxDepth == 2       \* execute() calls nested inside command handlers
MaxEvents == 2      \* application events handed to publish()
MaxEventRegs == 2   \* register_event_handler calls
MaxTasks == 2       \* processing tasks created by start()
MaxWorkers == 2      \* execute() calls the application runs concurrently
MaxWorkerCalls == 3  \* execute() calls made in those tasks, nested ones included
MaxContextLength == 3  \* largest max_context_length of a context manager
MaxMessages == 5  \* add_message calls on one context manager
MaxLoops == 3  \* processing tasks made when tasks restart the bus concurrently
MaxCreates == 3  \* create_session calls on one SessionManager
MaxSessionCalls == 1  \* execute() and publish() calls each, in SpecSessions

-----------------------------------------------------------------------------
(* Values.                                                                 *)

None == "None"
GLOBAL == "global"
\* no event: the queue's content while _event_queue is None is <<NoEntry>>
NoEntry == [ pub |-> 0, type |-> "None", session_id |-> "None",
             original_event_type |-> "None", original_event_data |-> "None",
             wrapper |-> FALSE ]
NoQueue == <<NoEntry>>
NoSpan == [trace_id |-> 0, span_id |-> 0, parent_span_id |-> 0]
NoExc == [type |-> <<>>, msg |-> <<>>]
\* the context variables of a task made where neither was set
NoContext == [session_id |-> None, span |-> NoSpan]
EmptyMap == [x \in {} |-> 0]

Put(f, k, v) == [x \in (DOMAIN f) \cup {k} |-> IF x = k THEN v ELSE f[x]]
Del(f, k) == [x \in (DOMAIN f) \ {k} |-> f[x]]

\* str(uuid.uuid4()) as a session id: the id drawn by the n-th execute()
Uuid4(n) == <<"uuid-1", "uuid-2", "uuid-3", "uuid-4", "uuid-5", "uuid-6">>[n]

RegSessions == {GLOBAL, "A"}              \* sessions handlers are registered under
CommandSessions == {None, "A"}            \* session_id of a new command
EventSessions == {None, "A", "B"}         \* session_id of a new event
CommandTypes == {"Command", "SimpleCommand"}
\* class SimpleCommand(Command)
CommandParent == [Command |-> None, SimpleCommand |-> "Command"]
CommandHandlerNames == {"h1", "h2"}

ValueErrorName == <<"V", "a", "l", "u", "e", "E", "r", "r", "o", "r">>
KeyErrorName == <<"K", "e", "y", "E", "r", "r", "o", "r">>
Boom == <<"b", "o", "o", "m">>
ManualError == <<"M", "a", "n", "u", "a", "l">>

\* exceptions a command handler raises
HandlerExceptions ==
    { [type |-> ValueErrorName, msg |-> Boom],
      [type |-> KeyErrorName, msg |-> <<"k">>] }

\* CommandResult values a command handler returns
HandlerResults ==
    { [success |-> TRUE, error |-> <<>>, original_command |-> 0],
      [success |-> FALSE, error |-> ManualError, original_command |-> 0] }

\* "sub in s" for strings
Contains(s, sub) ==
    \E i \in 0..(Len(s) - Len(sub)) : SubSeq(s, i + 1, i + Len(sub)) = sub


-----------------------------------------------------------------------------
(* Event types.  EventLogWrapper, ObservabilityBaseEvent and TraceEvent    *)
(* derive from the Event class that observability/events.py defines at     *)
(* run time ("StubEvent" here); application events derive from             *)
(* llmgine.messages.events.Event ("Event" here).                           *)

ObservabilityParent ==
    [ StubEvent |-> None,
      ObservabilityBaseEvent |-> "StubEvent",
      EventLogWrapper |-> "StubEvent",
      TraceEvent |-> "ObservabilityBaseEvent" ]

ApplicationParent ==
    [ Event |-> None,
      HierarchicalBaseEvent |-> "Event",
      HierarchicalChildEvent |-> "HierarchicalBaseEvent",
      HierarchicalGrandchildEvent |-> "HierarchicalChildEvent" ]

ParentOf(t) ==
    IF t \in DOMAIN ObservabilityParent THEN ObservabilityParent[t]
    ELSE ApplicationParent[t]

RECURSIVE IsSubclass(_, _)
\* issubclass(t, u)
IsSubclass(t, u) ==
    IF t = u THEN TRUE
    ELSE IF t = None THEN FALSE
    ELSE IsSubclass(ParentOf(t), u)

-----------------------------------------------------------------------------
(* publish().                                                              *)

\* the event objects created by start_span and end_span for span k
SpanStartId(k) == 100 + 2 * k
SpanEndId(k) == 101 + 2 * k

\* an event object; serializes tells whether _event_to_dict returns for it
NewEvent(id, type, sid) ==
    [id |-> id, type |-> type, session_id |-> sid, serializes |-> TRUE]

\* TraceEvent(span_context=..., status=...) as start_span and end_span make
\* it, lines 313-320 and 349-358; status is None in a start event
TraceEvent(id, span_context, status) ==
    [ id |-> id, type |-> "TraceEvent", session_id |-> None,
      serializes |-> TRUE, span_context |-> span_context, status |-> status ]

\* the span_context and status that the serialized form of an event has:
\* those of a TraceEvent, none for other events
NoTrace == [span_context |-> NoSpan, status |-> None]

TraceOf(ev) ==
    IF "span_context" \in DOMAIN ev
    THEN [span_context |-> ev.span_context, status |-> ev.status]
    ELSE NoTrace

\* an event object for which _event_to_dict raises
UnserializableEvent(id, type, sid) ==
    [NewEvent(id, type, sid) EXCEPT !.serializes = FALSE]

\* lines 606-620: the original_event_data of the wrapper made for ev
OriginalEventData(ev) ==
    IF ev.serializes THEN "event_to_dict" ELSE "Serialization failed"

\* lines 554-568: an event without a session id inherits the ambient one
InheritSession(ev, c) ==
    IF ev.session_id = None /\ c.session_id # None
    THEN [ev EXCEPT !.session_id = c.session_id]
    ELSE ev

\* lines 598-636: what publish() puts on the queue for event ev
QueueEntry(ev) ==
    IF IsSubclass(ev.type, "EventLogWrapper")
    THEN [ pub |-> ev.id, type |-> ev.type, session_id |-> ev.session_id,
           original_event_type |-> None, original_event_data |-> None,
           wrapper |-> FALSE, trace |-> NoTrace ]
    ELSE [ pub |-> ev.id, type |-> "EventLogWrapper",
           session_id |-> ev.session_id,
           original_event_type |-> ev.type,
           original_event_data |-> OriginalEventData(ev), wrapper |-> TRUE,
           trace |-> TraceOf(ev) ]

\* a queue that hands out the newest event first
QueueAfterPublishAtFront(q, ev, c) ==
    IF q = NoQueue THEN q
    ELSE <<QueueEntry(InheritSession(ev, c))>> \o q

\* a publish() that makes the queue when there is none yet
QueueAfterPublishMakingQueue(q, ev, c) ==
    Append(IF q = NoQueue THEN <<>> ELSE q, QueueEntry(InheritSession(ev, c)))

\* the queue after publish(ev) in context c; with no queue yet the put
\* raises AttributeError, which publish() logs and swallows
QueueAfterPublish(q, ev, c) ==
    IF q = NoQueue THEN q
    ELSE Append(q, QueueEntry(InheritSession(ev, c)))

-----------------------------------------------------------------------------
(* The command registry.                                                   *)

NoResult == [success |-> FALSE, error |-> <<>>, original_command |-> -1]

\* an operation that returned nothing (raised = FALSE) or raised
Outcome(op, raised) ==
    [op |-> op, raised |-> raised, command |-> 0, result |-> NoResult]

\* what the caller of an operation that returns None and cannot raise gets
ReturnedNone == Outcome("returned", FALSE)

\* session_id or "global"
OrGlobal(s) == IF s = None THEN GLOBAL ELSE s

HasCommandHandler(reg, s, t) == s \in DOMAIN reg /\ t \in DOMAIN reg[s]

\* a registration that replaces the handler already there
RegisterCommandHandlerOverwrite(session_id, command_type, handler) ==
    LET s == OrGlobal(session_id)
        withSession == IF s \in DOMAIN command_handlers THEN command_handlers
                       ELSE Put(command_handlers, s, EmptyMap)
    IN /\ command_handlers' =
            Put(withSession, s, Put(withSession[s], command_type, handler))
       /\ lastOp' = Outcome("register_command_handler", FALSE)
       /\ UNCHANGED <<event_handlers, event_queue, processing_task, tasks,
                      ctx, stack, counters, dequeued, scopes, workers, orphans,
                   components>>

RegisterCommandHandler(session_id, command_type, handler) ==
    LET s == OrGlobal(session_id)
        withSession == IF s \in DOMAIN command_handlers THEN command_handlers
                       ELSE Put(command_handlers, s, EmptyMap)
        duplicate == command_type \in DOMAIN withSession[s]
    IN /\ command_handlers' =
            IF duplicate THEN withSession
            ELSE Put(withSession, s, Put(withSession[s], command_type, handler))
       /\ lastOp' = Outcome("register_command_handler", duplicate)
       /\ UNCHANGED <<event_handlers, event_queue, processing_task, tasks,
                      ctx, stack, counters, dequeued, scopes, workers, orphans,
                   components>>

\* an unregistration that forgets the event handlers
UnregisterCommandHandlersOnly(session_id) ==
    /\ command_handlers' = Del(command_handlers, session_id)
    /\ lastOp' = ReturnedNone
    /\ UNCHANGED <<event_handlers, event_queue, processing_task, tasks, ctx,
                   stack, counters, dequeued, workers, orphans, components>>

\* lines 257-283
UnregisterSessionHandlers(session_id) ==
    /\ command_handlers' = Del(command_handlers, session_id)
    /\ event_handlers' = Del(event_handlers, session_id)
    /\ lastOp' = ReturnedNone
    /\ UNCHANGED <<event_queue, processing_task, tasks, ctx, stack, counters,
                   dequeued, workers, orphans, components>>

-----------------------------------------------------------------------------
(* The session scope made by create_session(): a context manager around a  *)
(* session id whose register methods target that id and whose exit calls   *)
(* unregister_session_handlers with it.                                    *)

\* create_session() and entering the scope, for a session id not used before
SessionEnter(s) ==
    /\ s \notin DOMAIN scopes
    /\ scopes' = Put(scopes, s, "open")
    /\ lastOp' = ReturnedNone
    /\ UNCHANGED <<command_handlers, event_handlers, event_queue,
                   processing_task, tasks, ctx, stack, counters, dequeued,
                   workers, orphans, components>>

SessionIsOpen(s) == s \in DOMAIN scopes /\ scopes[s] = "open"

\* session.register_command_handler(command_type, handler)
SessionRegisterCommandHandler(s, command_type, handler) ==
    /\ SessionIsOpen(s)
    /\ RegisterCommandHandler(s, command_type, handler)

\* a scope that keeps its handlers when an exception leaves it
SessionExitLeakingOnError(s, exc) ==
    /\ SessionIsOpen(s)
    /\ scopes' = Put(scopes, s, IF exc THEN "raised" ELSE "exited")
    /\ IF exc
       THEN /\ lastOp' = ReturnedNone
            /\ UNCHANGED <<command_handlers, event_handlers, event_queue,
                           processing_task, tasks, ctx, stack, counters,
                           dequeued, workers, orphans, components>>
       ELSE UnregisterSessionHandlers(s)

\* the scope of session s exits, its body having completed (exc = FALSE) or
\* raised (exc = TRUE)
SessionExit(s, exc) ==
    /\ SessionIsOpen(s)
    /\ scopes' = Put(scopes, s, IF exc THEN "raised" ELSE "exited")
    /\ UnregisterSessionHandlers(s)

-----------------------------------------------------------------------------
(* execute().                                                              *)

\* lines 383-405: the session the command runs in
ResolveSession(command_session_id, c, n) ==
    LET s == IF command_session_id # None THEN command_session_id
             ELSE c.session_id
    IN IF s = None THEN Uuid4(n) ELSE s

\* a lookup that falls back to the handler of any session
FindHandlerAnySession(reg, s, t) ==
    IF HasCommandHandler(reg, s, t) THEN reg[s][t]
    ELSE IF \E o \in DOMAIN reg : t \in DOMAIN reg[o]
         THEN reg[CHOOSE o \in DOMAIN reg : t \in DOMAIN reg[o]][t]
         ELSE None

\* a lookup that also accepts the handler of the type's base class
FindHandlerOfSupertype(reg, s, t) ==
    LET Exact(u) == IF HasCommandHandler(reg, s, u) THEN reg[s][u]
                    ELSE IF HasCommandHandler(reg, GLOBAL, u) THEN reg[GLOBAL][u]
                    ELSE None
    IN IF Exact(t) # None \/ CommandParent[t] = None THEN Exact(t)
       ELSE Exact(CommandParent[t])

\* lines 407-414: the session's handler for the exact type, else "global"'s
FindHandler(reg, s, t) ==
    IF HasCommandHandler(reg, s, t) THEN reg[s][t]
    ELSE IF HasCommandHandler(reg, GLOBAL, t) THEN reg[GLOBAL][t]
    ELSE None

\* a start_span that begins a new trace whatever the parent
StartSpanAsRoot(p, k) == [trace_id |-> k, span_id |-> k, parent_span_id |-> 0]

\* start_span, lines 295-311: the span context of span k under parent p
StartSpan(p, k) ==
    IF p # NoSpan
    THEN [trace_id |-> p.trace_id, span_id |-> k, parent_span_id |-> p.span_id]
    ELSE [trace_id |-> k, span_id |-> k, parent_span_id |-> 0]

\* an error text that leaves out the exception's type
FormatErrorMessageOnly(e) == e.msg

\* line 535
FormatError(e) == e.type \o <<":", " ">> \o e.msg

\* lines 544-549: the finally block resets both context variables
ResetContext(frame) ==
    [session_id |-> frame.session_token, span |-> frame.trace_token]

\* lines 416-425 raise before the try block is entered: nothing is reset
ContextAfterNoHandler(c, sid) == [c EXCEPT !.session_id = sid]

\* execute() of command number id up to the call of its handler, in a task
\* with context c and pending calls st, with queue q: the task's context and
\* pending calls, the queue and the outcome for the caller afterwards
ExecuteIn(c, st, q, type, sid, id) ==
    LET resolved == ResolveSession(sid, c, id)
        command == [id |-> id, type |-> type, session_id |-> resolved]
        handler == FindHandler(command_handlers, resolved, type)
        span == StartSpan(c.span, id)
        inside == [session_id |-> resolved, span |-> c.span]
        start == TraceEvent(SpanStartId(id), span, None)
    IN IF handler = None
       THEN [ ctx |-> ContextAfterNoHandler(c, resolved), stack |-> st,
              queue |-> q,
              lastOp |-> [ op |-> "execute", raised |-> TRUE,
                           command |-> id, result |-> NoResult ] ]
       ELSE [ ctx |-> [session_id |-> resolved, span |-> span],
              stack |-> Append(st,
                         [ command |-> command, handler |-> handler,
                           session_token |-> c.session_id,
                           trace_token |-> c.span,
                           span_context |-> span, pre |-> c ]),
              queue |-> QueueAfterPublish(q, start, inside),
              lastOp |-> Outcome("execute_begin", FALSE) ]

\* an end_span that reports every span as OK
EndStatusAlwaysOK(r, exc) == "OK"

\* lines 475-480 and 506-514, 338-340: the status of the span's end event
EndStatus(r, exc) ==
    IF exc # NoExc THEN "EXCEPTION"
    ELSE IF r.success THEN "OK" ELSE "ERROR"

\* lines 466-549: the handler of the innermost execute() of a task ends, it
\* returns r (exc = NoExc) or raises exc
ReturnIn(c, st, q, r, exc) ==
    LET frame == st[Len(st)]
        end == TraceEvent(SpanEndId(frame.command.id), frame.span_context,
                          EndStatus(r, exc))
        result == IF exc = NoExc THEN r
                  ELSE [ success |-> FALSE, error |-> FormatError(exc),
                         original_command |-> frame.command.id ]
    IN [ ctx |-> ResetContext(frame),
         stack |-> SubSeq(st, 1, Len(st) - 1),
         queue |-> QueueAfterPublish(q, end, c),
         lastOp |-> [ op |-> "execute", raised |-> FALSE,
                      command |-> frame.command.id, result |-> result ] ]

\* execute() called in the main task
ExecuteBegin(type, sid) ==
    /\ counters.exec < MaxExec
    /\ Len(stack) < MaxDepth
    /\ LET r == ExecuteIn(ctx, stack, event_queue, type, sid, counters.exec + 1)
       IN /\ ctx' = r.ctx
          /\ stack' = r.stack
          /\ event_queue' = r.queue
          /\ lastOp' = r.lastOp
    /\ counters' = [counters EXCEPT !.exec = @ + 1]
    /\ UNCHANGED <<command_handlers, event_handlers, processing_task, tasks,
                   dequeued, scopes, workers, orphans, components>>

\* the handler of the innermost execute() of the main task ends
ExecuteEnd(r, exc) ==
    /\ stack # <<>>
    /\ LET o == ReturnIn(ctx, stack, event_queue, r, exc)
       IN /\ ctx' = o.ctx
          /\ stack' = o.stack
          /\ event_queue' = o.queue
          /\ lastOp' = o.lastOp
    /\ UNCHANGED <<command_handlers, event_handlers, processing_task, tasks,
                   counters, dequeued, scopes, workers, orphans, components>>

\* asyncio.gather(bus.execute(c1), bus.execute(c2), ...) in the main task:
\* a task is made for each call, with a copy of the caller's context
Gather ==
    /\ workers = <<>>
    /\ workers' = [w \in 1..MaxWorkers |->
                      [pc |-> "created", ctx |-> ctx, stack |-> <<>>]]
    /\ lastOp' = ReturnedNone
    /\ UNCHANGED <<command_handlers, event_handlers, event_queue,
                   processing_task, tasks, ctx, stack, counters, dequeued,
                   scopes, orphans, components>>

\* the context variables that execute() reads and sets in task w
ContextOf(w) == workers[w].ctx

\* execute() in task w: the call the task was made for (pc = "created"), or
\* one made by the handler that is running in the task
WorkerExecuteBegin(w, type, sid) ==
    /\ w \in 1..Len(workers)
    /\ counters.exec < MaxWorkerCalls
    /\ Len(workers[w].stack) < MaxDepth
    /\ \/ workers[w].pc = "created"
       \/ workers[w].pc = "running" /\ workers[w].stack # <<>>
    /\ LET r == ExecuteIn(ContextOf(w), workers[w].stack, event_queue, type,
                          sid, counters.exec + 1)
       IN /\ workers' = [workers EXCEPT ![w] =
                [ pc |-> IF r.stack = <<>> THEN "done" ELSE "running",
                  ctx |-> r.ctx, stack |-> r.stack ]]
          /\ event_queue' = r.queue
          /\ lastOp' = r.lastOp
    /\ counters' = [counters EXCEPT !.exec = @ + 1]
    /\ UNCHANGED <<command_handlers, event_handlers, processing_task, tasks,
                   ctx, stack, dequeued, scopes, orphans, components>>

\* the handler of the innermost execute() of task w ends
WorkerExecuteEnd(w, r, exc) ==
    /\ w \in 1..Len(workers)
    /\ workers[w].stack # <<>>
    /\ LET o == ReturnIn(ContextOf(w), workers[w].stack, event_queue, r, exc)
       IN /\ workers' = [workers EXCEPT ![w] =
                [ pc |-> IF o.stack = <<>> THEN "done" ELSE "running",
                  ctx |-> o.ctx, stack |-> o.stack ]]
          /\ event_queue' = o.queue
          /\ lastOp' = o.lastOp
    /\ UNCHANGED <<command_handlers, event_handlers, processing_task, tasks,
                   ctx, stack, counters, dequeued, scopes, orphans,
                   components>>

\* a result of a handler that succeeded
Succeeded == [success |-> TRUE, error |-> <<>>, original_command |-> 0]

HandlerReturns == \E r \in HandlerResults : ExecuteEnd(r, NoExc)
HandlerRaises == \E e \in HandlerExceptions : ExecuteEnd(NoResult, e)

-----------------------------------------------------------------------------
(* The event registry and the handlers an event is dispatched to.          *)

EventHandlerNames == {"handle_event", "handle_with_error"}
\* a coroutine function that takes no argument: calling it with the event
\* raises TypeError before any coroutine exists
WrongSignature == {"handle_nothing"}
CoroutineFunctions == {"handle_event", "handle_with_error"} \cup WrongSignature
\* a handler that is not a coroutine function, as the lambdas of
\* test_concurrent_event_handling
SyncHandlers == {"lambda"}
RaisingHandlers == {"handle_with_error"}
RegEventTypes == {"EventLogWrapper", "HierarchicalBaseEvent"}
PublishTypes == {"EventLogWrapper", "HierarchicalBaseEvent", "HierarchicalChildEvent"}

\* lines 889-901: a coroutine function is registered as it is, anything else
\* inside an async_wrapper made for this registration (the n-th made)
WrapHandlerAsAsync(handler, n) ==
    IF handler \in CoroutineFunctions
    THEN [fn |-> handler, wrapper |-> 0]
    ELSE [fn |-> handler, wrapper |-> n]

\* the position of event type t in the session's dict, 0 if it is not a key
TypeIndex(typeList, t) ==
    IF \E i \in 1..Len(typeList) : typeList[i].type = t
    THEN CHOOSE i \in 1..Len(typeList) : typeList[i].type = t
    ELSE 0

RegisterEventHandler(session_id, event_type, handler) ==
    /\ counters.reg < MaxEventRegs
    /\ LET s == OrGlobal(session_id)
           withSession == IF s \in DOMAIN event_handlers THEN event_handlers
                          ELSE Put(event_handlers, s, <<>>)
           withType == IF TypeIndex(withSession[s], event_type) # 0
                       THEN withSession[s]
                       ELSE Append(withSession[s],
                                   [type |-> event_type, handlers |-> <<>>])
           i == TypeIndex(withType, event_type)
           made == IF handler \in CoroutineFunctions THEN 0 ELSE 1
           h == WrapHandlerAsAsync(handler, counters.wrap + 1)
       IN /\ event_handlers' =
                Put(withSession, s,
                    [withType EXCEPT ![i].handlers = Append(@, h)])
          /\ counters' = [counters EXCEPT !.reg = @ + 1, !.wrap = @ + made]
    /\ lastOp' = ReturnedNone
    /\ UNCHANGED <<command_handlers, event_queue, processing_task, tasks, ctx,
                   stack, dequeued, scopes, workers, orphans, components>>

\* session.register_event_handler(event_type, handler)
SessionRegisterEventHandler(s, event_type, handler) ==
    /\ SessionIsOpen(s)
    /\ RegisterEventHandler(s, event_type, handler)

InSeq(x, seq) == \E i \in 1..Len(seq) : seq[i] = x

RECURSIVE Without(_, _)
\* the elements of seq that are not in acc, in order
Without(seq, acc) ==
    IF seq = <<>> THEN <<>>
    ELSE IF InSeq(Head(seq), acc) THEN Without(Tail(seq), acc)
    ELSE <<Head(seq)>> \o Without(Tail(seq), acc)

RECURSIVE SessionHandlers(_, _)
\* lines 718-725: every handler list whose registered type the event's type
\* is a subclass of, in the order of the dict
SessionHandlers(typeList, t) ==
    IF typeList = <<>> THEN <<>>
    ELSE (IF IsSubclass(t, Head(typeList).type)
          THEN Head(typeList).handlers ELSE <<>>)
         \o SessionHandlers(Tail(typeList), t)

RECURSIVE GlobalHandlers(_, _, _)
\* lines 727-733: the same over "global", leaving out handlers already there
GlobalHandlers(typeList, t, acc) ==
    IF typeList = <<>> THEN acc
    ELSE GlobalHandlers(Tail(typeList), t,
             IF IsSubclass(t, Head(typeList).type)
             THEN acc \o Without(Head(typeList).handlers, acc)
             ELSE acc)

\* a dispatch that runs the matching handlers of every session
HandlersToRunEverySession(reg, entry) ==
    LET RECURSIVE All(_)
        All(ss) == IF ss = {} THEN <<>>
                   ELSE LET s == CHOOSE x \in ss : TRUE
                        IN SessionHandlers(reg[s], entry.type) \o All(ss \ {s})
    IN All(DOMAIN reg)

\* handlers_to_run of _handle_event for a queue entry
HandlersToRun(reg, entry) ==
    LET own == IF entry.session_id # None /\ entry.session_id \in DOMAIN reg
               THEN SessionHandlers(reg[entry.session_id], entry.type)
               ELSE <<>>
    IN IF GLOBAL \in DOMAIN reg
       THEN GlobalHandlers(reg[GLOBAL], entry.type, own)
       ELSE own

-----------------------------------------------------------------------------
(* start(), stop(), publish() and the processing loop.                     *)

\* a processing task: waiting in queue.get() ("get"), waiting in gather for
\* the handler tasks of its event ("gather"), or ended ("finished")
\* ctx is the task's own copy of the context variables, session_token the
\* ambient session from before _handle_event set the event's
NewTask ==
    [ pc |-> "get", cancelling |-> FALSE, event |-> NoEntry, children |-> <<>>,
      ctx |-> NoContext, session_token |-> None ]

\* create_task copies the context of the task that calls it
TaskIn(c) == [NewTask EXCEPT !.ctx = c, !.session_token = c.session_id]

\* lines 882-887: the finally block of _handle_event resets the session
LoopContextAfter(task) == [task.ctx EXCEPT !.session_id = task.session_token]

Settled(child) == child.status \in {"done", "raised", "cancelled"}

\* the handler tasks whose result in gather is an exception
Raised(children) == {k \in 1..Len(children) : children[k].status = "raised"}

\* a start() that does not look at _processing_task
StartAlways ==
    /\ Len(tasks) < MaxTasks
    /\ event_queue' = IF event_queue = NoQueue THEN <<>> ELSE event_queue
    /\ tasks' = Append(tasks, TaskIn(ctx))
    /\ processing_task' = Len(tasks) + 1
    /\ lastOp' = Outcome("start", FALSE)
    /\ UNCHANGED <<command_handlers, event_handlers, ctx, stack, counters,
                   dequeued, scopes, workers, orphans, components>>

\* a start() that makes a new queue every time it makes a task
StartWithNewQueue ==
    /\ processing_task # 0 \/ Len(tasks) < MaxTasks
    /\ IF processing_task = 0
       THEN /\ event_queue' = <<>>
            /\ tasks' = Append(tasks, TaskIn(ctx))
            /\ processing_task' = Len(tasks) + 1
       ELSE UNCHANGED <<event_queue, tasks, processing_task>>
    /\ lastOp' = Outcome("start", FALSE)
    /\ UNCHANGED <<command_handlers, event_handlers, ctx, stack, counters,
                   dequeued, scopes, workers, orphans, components>>

\* lines 128-148, for at most limit processing tasks
StartWithin(limit) ==
    /\ processing_task # 0 \/ Len(tasks) < limit
    /\ IF processing_task = 0
       THEN /\ event_queue' = IF event_queue = NoQueue THEN <<>> ELSE event_queue
            /\ tasks' = Append(tasks, TaskIn(ctx))
            /\ processing_task' = Len(tasks) + 1
       ELSE UNCHANGED <<event_queue, tasks, processing_task>>
    /\ lastOp' = Outcome("start", FALSE)
    /\ UNCHANGED <<command_handlers, event_handlers, ctx, stack, counters,
                   dequeued, scopes, workers, orphans, components>>

Start == StartWithin(MaxTasks)

\* the handler tasks after the gather they are awaited in is cancelled:
\* a task that has not started never runs, a running one in keep runs on
CancelChildren(children, keep) ==
    [k \in 1..Len(children) |->
        IF children[k].status = "created"
           \/ (children[k].status = "running" /\ k \notin keep)
        THEN [children[k] EXCEPT !.status = "cancelled"]
        ELSE children[k]]

\* lines 664-690: the cancellation reaches the loop inside _handle_event
\* once every handler task has ended, and the finally clause marks the
\* event done; a loop cancelled in queue.get() holds no event
TaskDoneOnCancel(keep) ==
    IF processing_task = 0 THEN 0
    ELSE LET t == tasks[processing_task]
             children == CancelChildren(t.children, keep)
         IN IF /\ t.pc = "gather"
               /\ \A k \in 1..Len(children) : Settled(children[k])
            THEN 1 ELSE 0

\* a stop() that forgets the task only when the wait for it ended in time
StopUnlessTimeout(keep) ==
    /\ keep \subseteq {k \in 1..MaxEventRegs :
                          /\ processing_task # 0
                          /\ k <= Len(tasks[processing_task].children)
                          /\ tasks[processing_task].children[k].status = "running"}
    /\ IF processing_task = 0
       THEN UNCHANGED tasks
       ELSE LET t == tasks[processing_task]
                children == CancelChildren(t.children, keep)
            IN tasks' = [tasks EXCEPT ![processing_task] =
                           IF \A k \in 1..Len(children) : Settled(children[k])
                           THEN [ TaskIn(LoopContextAfter(t)) EXCEPT
                                      !.pc = "finished" ]
                           ELSE [ t EXCEPT !.cancelling = TRUE,
                                           !.children = children ]]
    /\ processing_task' = IF keep = {} THEN 0 ELSE processing_task
    /\ lastOp' = ReturnedNone
    /\ counters' = [counters EXCEPT !.done = @ + TaskDoneOnCancel(keep)]
    /\ UNCHANGED <<command_handlers, event_handlers, event_queue, ctx, stack,
                   dequeued, scopes, workers, orphans, components>>

\* stop() with the handler tasks in keep outliving the 2 second wait
StopKeeping(keep) ==
    /\ IF processing_task = 0
       THEN /\ keep = {}
            /\ UNCHANGED tasks
       ELSE LET t == tasks[processing_task]
                children == CancelChildren(t.children, keep)
            IN /\ keep \subseteq {k \in 1..Len(t.children) :
                                     t.children[k].status = "running"}
               /\ tasks' = [tasks EXCEPT ![processing_task] =
                              IF \A k \in 1..Len(children) : Settled(children[k])
                              THEN [ TaskIn(LoopContextAfter(t)) EXCEPT
                                         !.pc = "finished" ]
                              ELSE [ t EXCEPT !.cancelling = TRUE,
                                              !.children = children ]]
    /\ processing_task' = 0
    /\ lastOp' = ReturnedNone
    /\ counters' = [counters EXCEPT !.done = @ + TaskDoneOnCancel(keep)]
    /\ UNCHANGED <<command_handlers, event_handlers, event_queue, ctx, stack,
                   dequeued, scopes, workers, orphans, components>>

Stop == \E keep \in SUBSET (1..MaxEventRegs) : StopKeeping(keep)

\* lines 150-160: stop() up to its await, called while other calls of the
\* bus may be in progress: the task is cancelled and the call is suspended
\* in wait_for, _processing_task still set
StopBegin ==
    /\ processing_task # 0
    /\ Len(stopping) < MaxWorkers
    /\ LET t == tasks[processing_task]
       IN /\ tasks' = [tasks EXCEPT ![processing_task] =
                         IF t.pc = "finished" THEN t
                         ELSE [ TaskIn(LoopContextAfter(t)) EXCEPT
                                    !.pc = "finished" ]]
          /\ counters' = [counters EXCEPT !.done = @ + TaskDoneOnCancel({})]
    /\ stopping' = Append(stopping, [task |-> processing_task, pc |-> "wait_for"])
    /\ lastOp' = ReturnedNone
    /\ UNCHANGED <<command_handlers, event_handlers, event_queue,
                   processing_task, ctx, stack, dequeued, scopes, workers,
                   orphans, contexts, max_context_length, active_sessions,
                   creating>>

\* lines 161-185: the task the n-th suspended stop() waits for has ended;
\* the call resumes and its finally clause sets _processing_task to None
StopEnd(n) ==
    /\ n \in 1..Len(stopping)
    /\ stopping[n].pc = "wait_for"
    /\ tasks[stopping[n].task].pc = "finished"
    /\ stopping' = [stopping EXCEPT ![n].pc = "returned"]
    /\ processing_task' = 0
    /\ lastOp' = ReturnedNone
    /\ UNCHANGED <<command_handlers, event_handlers, event_queue, tasks, ctx,
                   stack, counters, dequeued, scopes, workers, orphans,
                   contexts, max_context_length, active_sessions, creating>>

\* lines 598-636, the body of the try block of publish(): the queue after
\* it and the exception it ends with; a failed serialization is handled
\* inside it, a put on the missing queue raises AttributeError
TryPublish(q, ev, c) ==
    [ queue |-> QueueAfterPublish(q, ev, c),
      exc |-> IF q = NoQueue THEN "AttributeError" ELSE None ]

\* a publish() without its except clause
PublishPropagating(q, ev, c) == TryPublish(q, ev, c)

\* lines 598-646: the except clause logs whatever the try block raised
PublishOutcome(q, ev, c) == [TryPublish(q, ev, c) EXCEPT !.exc = None]

\* lines 570-583: the metadata of event ev after publish() in context c:
\* the ids of the ambient span when there is one and the metadata has no
\* "trace_id", the event's session id when it has one and the metadata
\* has no "session_id"
MergeMetadata(ev, c) ==
    LET event_session_id == InheritSession(ev, c).session_id
        traced ==
            IF c.span # NoSpan /\ "trace_id" \notin DOMAIN ev.metadata
            THEN LET ids == Put(Put(ev.metadata, "trace_id", c.span.trace_id),
                                "span_id", c.span.span_id)
                 IN IF c.span.parent_span_id # 0
                    THEN Put(ids, "parent_span_id", c.span.parent_span_id)
                    ELSE ids
            ELSE ev.metadata
    IN IF event_session_id # None /\ "session_id" \notin DOMAIN traced
       THEN Put(traced, "session_id", event_session_id)
       ELSE traced

\* what publish(ev) leaves to its caller: nothing, but for an event with a
\* metadata attribute the event object it has changed
Published(ev, c) ==
    IF "metadata" \in DOMAIN ev
    THEN [ op |-> "publish", raised |-> FALSE, command |-> 0,
           result |-> NoResult, event |-> ev,
           metadata |-> MergeMetadata(ev, c) ]
    ELSE ReturnedNone

\* publish(ev)
PublishObject(ev) ==
    /\ counters.event < MaxEvents
    /\ LET r == PublishOutcome(event_queue, ev, ctx)
       IN /\ event_queue' = r.queue
          /\ lastOp' = IF r.exc = None THEN Published(ev, ctx)
                       ELSE Outcome("publish", TRUE)
    /\ counters' = [counters EXCEPT !.event = @ + 1]
    /\ UNCHANGED <<command_handlers, event_handlers, processing_task, tasks,
                   ctx, stack, dequeued, scopes, workers, orphans,
                   components>>

PublishEvent(type, sid) == PublishObject(NewEvent(counters.event + 1, type, sid))

\* lines 735-740: the context in which the handlers of entry run, in a task
\* whose context is c
HandlingContext(c, entry) ==
    IF entry.session_id # None THEN [c EXCEPT !.session_id = entry.session_id]
    ELSE c

\* _process_events, lines 651-680: task i takes the next event; with no
\* handler to run _handle_event returns at once and the task is back in get
\* lines 792-795: the position in handlers_to_run of the first handler
\* whose call handler(event) raises, 0 when every call gives a coroutine
FirstFailingCall(hs) ==
    IF \E k \in 1..Len(hs) : hs[k].fn \in WrongSignature
    THEN CHOOSE k \in 1..Len(hs) :
             /\ hs[k].fn \in WrongSignature
             /\ \A j \in 1..(k - 1) : hs[j].fn \notin WrongSignature
    ELSE 0

\* lines 654-690 and 709-795: the loop takes the next event, _handle_event
\* collects its handlers and creates a task for each; with no handler the
\* event is done at once; when a call handler(event) raises, the except
\* clause of _handle_event (856-879) logs it and the event is done as well,
\* the tasks created before it being left to the event loop
Dequeue(i) ==
    /\ tasks[i].pc = "get"
    /\ event_queue # NoQueue
    /\ event_queue # <<>>
    /\ LET entry == Head(event_queue)
           hs == HandlersToRun(event_handlers, entry)
           inside == HandlingContext(tasks[i].ctx, entry)
           failing == FirstFailingCall(hs)
           created == IF failing = 0 THEN Len(hs) ELSE failing - 1
           children == [k \in 1..created |->
                           [ handler |-> hs[k], status |-> "created",
                             ctx |-> inside, stack |-> <<>> ]]
       IN /\ tasks' = [tasks EXCEPT ![i] =
                         IF hs = <<>> \/ failing # 0
                         THEN TaskIn(LoopContextAfter(
                             [@ EXCEPT !.ctx = inside,
                                       !.session_token = tasks[i].ctx.session_id]))
                         ELSE [ pc |-> "gather", cancelling |-> FALSE,
                                event |-> entry,
                                children |-> children,
                                ctx |-> inside,
                                session_token |-> @.ctx.session_id ]]
          /\ counters' = [counters EXCEPT !.done =
                            IF hs = <<>> \/ failing # 0 THEN @ + 1 ELSE @]
          /\ orphans' = IF failing = 0 THEN orphans
                        ELSE orphans \o [k \in 1..created |->
                                 [ handler |-> hs[k], status |-> "created",
                                   event |-> entry.pub ]]
    /\ event_queue' = Tail(event_queue)
    /\ dequeued' = Append(dequeued, Head(event_queue).pub)
    /\ UNCHANGED <<command_handlers, event_handlers, processing_task, ctx,
                   stack, lastOp, scopes, workers, components>>

\* an orphaned handler task gets its turn on the event loop
OrphanStart(k) ==
    /\ k \in 1..Len(orphans)
    /\ orphans[k].status = "created"
    /\ orphans' = [orphans EXCEPT ![k].status =
                      IF orphans[k].handler.fn \in RaisingHandlers
                      THEN "raised" ELSE "running"]
    /\ UNCHANGED <<command_handlers, event_handlers, event_queue,
                   processing_task, tasks, ctx, stack, counters, dequeued,
                   lastOp, scopes, workers, components>>

\* an orphaned handler task returns
OrphanFinish(k) ==
    /\ k \in 1..Len(orphans)
    /\ orphans[k].status = "running"
    /\ orphans' = [orphans EXCEPT ![k].status = "done"]
    /\ UNCHANGED <<command_handlers, event_handlers, event_queue,
                   processing_task, tasks, ctx, stack, counters, dequeued,
                   lastOp, scopes, workers, components>>

\* a dispatch that awaits each handler before it starts the next one
StartHandlersOneByOne(i) ==
    /\ tasks[i].pc = "gather"
    /\ \E k \in 1..Len(tasks[i].children) : tasks[i].children[k].status = "created"
    /\ \A k \in 1..Len(tasks[i].children) : tasks[i].children[k].status # "running"
    /\ LET first == CHOOSE k \in 1..Len(tasks[i].children) :
                        /\ tasks[i].children[k].status = "created"
                        /\ \A n \in 1..(k - 1) : tasks[i].children[n].status # "created"
       IN tasks' = [tasks EXCEPT ![i].children[first].status =
                      IF tasks[i].children[first].handler.fn \in RaisingHandlers
                      THEN "raised" ELSE "running"]
    /\ UNCHANGED <<command_handlers, event_handlers, event_queue,
                   processing_task, ctx, stack, counters, dequeued, lastOp, scopes,
                   workers, orphans, components>>

\* the handler tasks made for the event of task i get their first turn, in
\* the order they were created
StartHandlers(i) ==
    /\ tasks[i].pc = "gather"
    /\ \E k \in 1..Len(tasks[i].children) : tasks[i].children[k].status = "created"
    /\ tasks' = [tasks EXCEPT ![i].children =
                   [k \in 1..Len(@) |->
                       IF @[k].status # "created" THEN @[k]
                       ELSE IF @[k].handler.fn \in RaisingHandlers
                       THEN [@[k] EXCEPT !.status = "raised"]
                       ELSE [@[k] EXCEPT !.status = "running"]]]
    /\ UNCHANGED <<command_handlers, event_handlers, event_queue,
                   processing_task, ctx, stack, counters, dequeued, lastOp, scopes,
                   workers, orphans, components>>

\* handler task k of task i returns
HandlerFinish(i, k) ==
    /\ tasks[i].pc = "gather"
    /\ k \in 1..Len(tasks[i].children)
    /\ tasks[i].children[k].status = "running"
    /\ tasks[i].children[k].stack = <<>>
    /\ tasks' = [tasks EXCEPT ![i].children[k].status = "done"]
    /\ UNCHANGED <<command_handlers, event_handlers, event_queue,
                   processing_task, ctx, stack, counters, dequeued, lastOp, scopes,
                   workers, orphans, components>>

\* execute() called by the event handler running in handler task k of
\* processing task i
HandlerExecuteBegin(i, k, type, sid) ==
    /\ tasks[i].pc = "gather"
    /\ k \in 1..Len(tasks[i].children)
    /\ tasks[i].children[k].status = "running"
    /\ counters.exec < MaxExec
    /\ Len(tasks[i].children[k].stack) < MaxDepth
    /\ LET child == tasks[i].children[k]
           r == ExecuteIn(child.ctx, child.stack, event_queue, type, sid,
                          counters.exec + 1)
       IN /\ tasks' = [tasks EXCEPT ![i].children[k].ctx = r.ctx,
                                    ![i].children[k].stack = r.stack]
          /\ event_queue' = r.queue
          /\ lastOp' = r.lastOp
    /\ counters' = [counters EXCEPT !.exec = @ + 1]
    /\ UNCHANGED <<command_handlers, event_handlers, processing_task, ctx,
                   stack, dequeued, scopes, workers, orphans, components>>

\* the command handler of the innermost execute() of that handler task ends
HandlerExecuteEnd(i, k, r, exc) ==
    /\ tasks[i].pc = "gather"
    /\ k \in 1..Len(tasks[i].children)
    /\ tasks[i].children[k].status = "running"
    /\ tasks[i].children[k].stack # <<>>
    /\ LET child == tasks[i].children[k]
           o == ReturnIn(child.ctx, child.stack, event_queue, r, exc)
       IN /\ tasks' = [tasks EXCEPT ![i].children[k].ctx = o.ctx,
                                    ![i].children[k].stack = o.stack]
          /\ event_queue' = o.queue
          /\ lastOp' = o.lastOp
    /\ UNCHANGED <<command_handlers, event_handlers, processing_task, ctx,
                   stack, counters, dequeued, scopes, workers, orphans,
                   components>>

\* a gather that ends with the first exception
DispatchDoneOnFirstError(i) ==
    /\ tasks[i].pc = "gather"
    /\ \/ \A k \in 1..Len(tasks[i].children) : Settled(tasks[i].children[k])
       \/ \E k \in 1..Len(tasks[i].children) : tasks[i].children[k].status = "raised"
    /\ tasks' = [tasks EXCEPT ![i] =
                   IF @.cancelling
                   THEN [TaskIn(LoopContextAfter(@)) EXCEPT !.pc = "finished"]
                   ELSE TaskIn(LoopContextAfter(@))]
    /\ counters' = [counters EXCEPT
                      !.errors = IF Raised(tasks[i].children) = {} THEN @ ELSE 1,
                      !.done = @ + 1]
    /\ UNCHANGED <<command_handlers, event_handlers, event_queue,
                   processing_task, ctx, stack, dequeued, lastOp, scopes, workers, orphans,
                   components>>

\* lines 797-832 and 682-690: gather(return_exceptions=True) ends when
\* every handler task has; the loop goes on unless it was cancelled
DispatchDone(i) ==
    /\ tasks[i].pc = "gather"
    /\ \A k \in 1..Len(tasks[i].children) : Settled(tasks[i].children[k])
    /\ tasks' = [tasks EXCEPT ![i] =
                   IF @.cancelling
                   THEN [TaskIn(LoopContextAfter(@)) EXCEPT !.pc = "finished"]
                   ELSE TaskIn(LoopContextAfter(@))]
    /\ counters' = [counters EXCEPT
                      !.errors = IF Raised(tasks[i].children) = {} THEN @ ELSE 1,
                      !.done = @ + 1]
    /\ UNCHANGED <<command_handlers, event_handlers, event_queue,
                   processing_task, ctx, stack, dequeued, lastOp, scopes, workers, orphans,
                   components>>

-----------------------------------------------------------------------------
\* MessageBus(): lines 86-106
MessageBusInit ==
    /\ command_handlers = EmptyMap
    /\ event_handlers = EmptyMap
    /\ event_queue = NoQueue
    /\ processing_task = 0
    /\ tasks = <<>>
    /\ ctx = [session_id |-> None, span |-> NoSpan]
    /\ stack = <<>>
    /\ counters = [exec |-> 0, event |-> 0, wrap |-> 0, reg |-> 0, errors |-> 0,
                   done |-> 0]
    /\ dequeued = <<>>
    /\ lastOp = ReturnedNone
    /\ scopes = EmptyMap
    /\ workers = <<>>
    /\ orphans = <<>>
    /\ stopping = <<>>

\* SessionManager(bot)
SessionManagerInit ==
    /\ active_sessions = EmptyMap
    /\ creating = <<>>

\* the bus, InMemoryContextManager() and SessionManager(bot)
Init ==
    /\ MessageBusInit
    /\ contexts = EmptyMap
    /\ max_context_length = 100
    /\ SessionManagerInit

RegisterCommand ==
    \E s \in RegSessions \cup {None}, t \in CommandTypes, h \in CommandHandlerNames :
        RegisterCommandHandler(s, t, h)

Unregister ==
    /\ \E s \in RegSessions \cup {"B"} : UnregisterSessionHandlers(s)
    /\ UNCHANGED scopes

Execute == \E t \in CommandTypes, s \in CommandSessions : ExecuteBegin(t, s)

NextCommands ==
    \/ RegisterCommand
    \/ Unregister
    \/ Execute
    \/ HandlerReturns
    \/ HandlerRaises

SpecCommands == Init /\ [][NextCommands]_vars

RegisterEvent ==
    \E s \in RegSessions \cup {None}, t \in RegEventTypes, h \in EventHandlerNames :
        RegisterEventHandler(s, t, h)

Publish == \E t \in PublishTypes, s \in EventSessions : PublishEvent(t, s)

TakeEvent == \E i \in 1..Len(tasks) : Dequeue(i)

RunHandlers == \E i \in 1..Len(tasks) : StartHandlers(i)

FinishHandler == \E i \in 1..Len(tasks), k \in 1..MaxEventRegs : HandlerFinish(i, k)

FinishDispatch == \E i \in 1..Len(tasks) : DispatchDone(i)

NextEvents ==
    \/ RegisterEvent
    \/ Unregister
    \/ Start
    \/ Stop
    \/ Publish
    \/ TakeEvent
    \/ RunHandlers
    \/ FinishHandler
    \/ FinishDispatch

SpecEvents == Init /\ [][NextEvents]_vars

\* the same with an event loop that gives every ready task its turn, and
\* handlers that return: a processing task waiting in queue.get() takes an
\* event that is there, handler tasks start and end, gather returns
FairEvents ==
    /\ SpecEvents
    /\ WF_vars(TakeEvent)
    /\ WF_vars(RunHandlers)
    /\ WF_vars(FinishHandler)
    /\ WF_vars(FinishDispatch)

(* publish() of events that do and do not serialize, on a bus that is      *)
(* started and stopped and whose handlers fail.                            *)

PublishAny ==
    \E t \in PublishTypes, s \in {None, "A"} :
        \/ PublishObject(NewEvent(counters.event + 1, t, s))
        \/ PublishObject(UnserializableEvent(counters.event + 1, t, s))

NextPublish ==
    \/ \E h \in EventHandlerNames : RegisterEventHandler(GLOBAL, "EventLogWrapper", h)
    \/ Start
    \/ Stop
    \/ PublishAny
    \/ TakeEvent
    \/ RunHandlers
    \/ FinishHandler
    \/ FinishDispatch

SpecPublish == Init /\ [][NextPublish]_vars

(* Event handlers that call execute(): the bus is started at top level or  *)
(* inside a command handler, events with and without a session id are      *)
(* published, and the handler of an event executes commands with and       *)
(* without a session id, for one of which no handler is registered.        *)

NextHandlers ==
    \/ RegisterCommandHandler(GLOBAL, "SimpleCommand", "h1")
    \/ RegisterEventHandler(GLOBAL, "EventLogWrapper", "handle_event")
    \/ /\ counters.exec < MaxSessionCalls
       /\ ExecuteBegin("SimpleCommand", "A")
    \/ ExecuteEnd(Succeeded, NoExc)
    \/ Start
    \/ \E s \in {None, "A"} : PublishEvent("EventLogWrapper", s)
    \/ TakeEvent
    \/ RunHandlers
    \/ FinishHandler
    \/ FinishDispatch
    \/ \E i \in 1..Len(tasks), t \in CommandTypes, sid \in {None, "B"} :
          HandlerExecuteBegin(i, 1, t, sid)
    \/ \E i \in 1..Len(tasks) : HandlerExecuteEnd(i, 1, Succeeded, NoExc)

SpecHandlers == Init /\ [][NextHandlers]_vars

(* Command handlers that publish events and execute further commands, on  *)
(* a started bus; no handler is registered for the type Command.           *)

NextChain ==
    \/ RegisterCommandHandler(GLOBAL, "SimpleCommand", "h1")
    \/ Start
    \/ \E t \in CommandTypes, sid \in {None, "A", "B"} : ExecuteBegin(t, sid)
    \/ HandlerReturns
    \/ HandlerRaises
    \/ \E s \in {None, "A"} : PublishEvent("HierarchicalBaseEvent", s)
    \/ TakeEvent

SpecChain == Init /\ [][NextChain]_vars

(* Two execute() calls run concurrently in tasks of their own, for          *)
(* commands of the sessions "A" and "B"; their handlers execute further    *)
(* commands, and no handler is registered for the type Command.            *)

\* the session id of the command that task w was made to execute
WorkerSession(w) == <<"A", "B", "C">>[w]

NextWorkers ==
    \/ \E s \in {GLOBAL, "A"} : RegisterCommandHandler(s, "SimpleCommand", "h1")
    \/ Gather
    \/ \E w \in 1..Len(workers) :
          /\ workers[w].pc = "created"
          /\ WorkerExecuteBegin(w, "SimpleCommand", WorkerSession(w))
    \/ \E w \in 1..Len(workers), t \in CommandTypes, sid \in {None, "A", "B"} :
          /\ workers[w].pc = "running"
          /\ WorkerExecuteBegin(w, t, sid)
    \/ \E w \in 1..Len(workers) : WorkerExecuteEnd(w, Succeeded, NoExc)

SpecWorkers == Init /\ [][NextWorkers]_vars

(* Session scopes "A" and "B" are entered, register handlers and exit,     *)
(* next to handlers registered under "global".                             *)

SessionNames == {"A", "B"}

NextScopes ==
    \/ \E s \in SessionNames : SessionEnter(s)
    \/ \E s \in SessionNames, t \in CommandTypes :
          SessionRegisterCommandHandler(s, t, "h1")
    \/ \E s \in SessionNames, t \in RegEventTypes :
          SessionRegisterEventHandler(s, t, "handle_event")
    \/ \E t \in CommandTypes : RegisterCommandHandler(GLOBAL, t, "h2")
    \/ RegisterEventHandler(GLOBAL, "EventLogWrapper", "handle_with_error")
    \/ \E s \in SessionNames, exc \in BOOLEAN : SessionExit(s, exc)

SpecScopes == Init /\ [][NextScopes]_vars

(* Sessions "A" and "B" register, run commands, publish and unregister,    *)
(* with one command type and the log wrapper as event type.                *)

NextSessions ==
    \/ \E s \in SessionNames : RegisterCommandHandler(s, "SimpleCommand", "h1")
    \/ RegisterCommandHandler(GLOBAL, "SimpleCommand", "h2")
    \/ \E s \in SessionNames : RegisterEventHandler(s, "EventLogWrapper", "handle_event")
    \/ RegisterEventHandler(GLOBAL, "EventLogWrapper", "handle_with_error")
    \/ /\ \E s \in SessionNames \cup {"C"} : UnregisterSessionHandlers(s)
       /\ UNCHANGED scopes
    \/ /\ counters.exec < MaxSessionCalls
       /\ \E s \in SessionNames : ExecuteBegin("SimpleCommand", s)
    \/ ExecuteEnd([success |-> TRUE, error |-> <<>>, original_command |-> 0], NoExc)
    \/ Start
    \/ /\ counters.event < MaxSessionCalls
       /\ \E s \in SessionNames : PublishEvent("EventLogWrapper", s)
    \/ TakeEvent
    \/ RunHandlers
    \/ FinishHandler
    \/ FinishDispatch

SpecSessions == Init /\ [][NextSessions]_vars

\* the bus with handlers of which one cannot be called with the event
RegisterAnyEvent ==
    \E h \in EventHandlerNames \cup WrongSignature :
        RegisterEventHandler(None, "EventLogWrapper", h)

PublishGlobal == \E t \in PublishTypes : PublishEvent(t, None)

RunOrphan == \E k \in 1..MaxEventRegs : OrphanStart(k)

FinishOrphan == \E k \in 1..MaxEventRegs : OrphanFinish(k)

NextDispatch ==
    \/ RegisterAnyEvent
    \/ Start
    \/ Stop
    \/ PublishGlobal
    \/ TakeEvent
    \/ RunHandlers
    \/ FinishHandler
    \/ FinishDispatch
    \/ RunOrphan
    \/ FinishOrphan

SpecDispatch == Init /\ [][NextDispatch]_vars

\* tasks that stop and start the bus concurrently, while it dispatches
NextRestart ==
    \/ RegisterEventHandler(None, "EventLogWrapper", "handle_event")
    \/ StartWithin(MaxLoops)
    \/ StopBegin
    \/ \E n \in 1..MaxWorkers : StopEnd(n)
    \/ PublishEvent("HierarchicalBaseEvent", None)
    \/ TakeEvent
    \/ RunHandlers
    \/ FinishHandler
    \/ FinishDispatch

SpecRestart == Init /\ [][NextRestart]_vars

\* the bus with a coroutine function and a plain function as handlers, under
\* a session and under "global", for the wrapper's type and its base
RegisterEither ==
    \E s \in {None, "A"}, t \in {"EventLogWrapper", "StubEvent"},
       h \in {"handle_event"} \cup SyncHandlers :
        RegisterEventHandler(s, t, h)

PublishInSession ==
    \E s \in {"A", GLOBAL} : PublishEvent("HierarchicalBaseEvent", s)

NextMultiplicity ==
    \/ RegisterEither
    \/ Start
    \/ PublishInSession
    \/ TakeEvent
    \/ RunHandlers
    \/ FinishHandler
    \/ FinishDispatch

SpecMultiplicity == Init /\ [][NextMultiplicity]_vars

\* the metadata an event is published with: none, a session id, a span id,
\* an entry of the application
MetadataInputs ==
    { EmptyMap, Put(EmptyMap, "session_id", "kept"), Put(EmptyMap, "span_id", -1),
      Put(EmptyMap, "user", "u") }

\* an event with the metadata attribute of the Event base class
EventWithMetadata(id, type, sid, metadata) ==
    [ id |-> id, type |-> type, session_id |-> sid, serializes |-> TRUE,
      metadata |-> metadata ]

PublishWithMetadata ==
    \E s \in {None, "B"}, md \in MetadataInputs :
        PublishObject(EventWithMetadata(counters.event + 1,
                                        "HierarchicalBaseEvent", s, md))

\* events published from the main task and from inside command handlers
NextMetadata ==
    \/ RegisterCommandHandler(GLOBAL, "SimpleCommand", "h1")
    \/ \E sid \in {None, "A"} : ExecuteBegin("SimpleCommand", sid)
    \/ HandlerReturns
    \/ Start
    \/ PublishWithMetadata

SpecMetadata == Init /\ [][NextMetadata]_vars

-----------------------------------------------------------------------------
(* InMemoryContextManager (llm/context/memory.py).                         *)

Conversations == {"c1", "c2"}

\* seq[-n:] of Python for n >= 0: the last n elements, and because -0 is 0
\* the whole list when n = 0
LastElements(seq, n) ==
    IF n = 0 \/ n >= Len(seq) THEN seq
    ELSE SubSeq(seq, Len(seq) - n + 1, Len(seq))

\* the messages are numbered in the order in which they are added; the one
\* added last is the last of its conversation
MessagesAdded ==
    LET last == {contexts[c][Len(contexts[c])] : c \in DOMAIN contexts}
    IN IF last = {} THEN 0 ELSE CHOOSE n \in last : \A k \in last : k <= n

\* lines 109-127
add_message(conversation_id, message) ==
    /\ LET existing == IF conversation_id \in DOMAIN contexts
                       THEN contexts[conversation_id] ELSE <<>>
           appended == Append(existing, message)
       IN contexts' = Put(contexts, conversation_id,
              IF Len(appended) > max_context_length
              THEN <<appended[1]>>
                       \o LastElements(appended, max_context_length - 1)
              ELSE appended)
    /\ UNCHANGED <<command_handlers, event_handlers, event_queue,
                   processing_task, tasks, ctx, stack, counters, dequeued,
                   lastOp, scopes, workers, orphans, max_context_length,
                   active_sessions, creating, stopping>>

AddMessage ==
    /\ MessagesAdded < MaxMessages
    /\ \E c \in Conversations : add_message(c, MessagesAdded + 1)

\* InMemoryContextManager(max_context_length) for a length of at least 1
InitContext ==
    /\ MessageBusInit
    /\ contexts = EmptyMap
    /\ max_context_length \in 1..MaxContextLength
    /\ SessionManagerInit

NextContext == AddMessage

SpecContext == InitContext /\ [][NextContext]_vars

-----------------------------------------------------------------------------
(* SessionManager (programs/discord/session_manager.py).                   *)

\* the values random.choice can give generate_session_id: three of the
\* 36^5 strings of five characters
SessionIds == {"AAAAA", "AAAAB", "AAAAC"}

\* lines 43-54: create_session(message) up to its await: the id is drawn
\* again while it is a key of active_sessions (32-41), then the call is
\* suspended in message.channel.send
CreateSessionBegin(session_id) ==
    /\ Len(creating) < MaxCreates
    /\ session_id \notin DOMAIN active_sessions
    /\ creating' = Append(creating, [pc |-> "send", session_id |-> session_id])
    /\ UNCHANGED <<command_handlers, event_handlers, event_queue,
                   processing_task, tasks, ctx, stack, counters, dequeued,
                   lastOp, scopes, workers, orphans, contexts,
                   max_context_length, active_sessions, stopping>>

\* lines 56-82: the send has completed; call n stores its session under
\* its id and returns the id
CreateSessionEnd(n) ==
    /\ n \in 1..Len(creating)
    /\ creating[n].pc = "send"
    /\ active_sessions' = Put(active_sessions, creating[n].session_id,
                              [id |-> creating[n].session_id, message |-> n])
    /\ creating' = [creating EXCEPT ![n].pc = "returned"]
    /\ UNCHANGED <<command_handlers, event_handlers, event_queue,
                   processing_task, tasks, ctx, stack, counters, dequeued,
                   lastOp, scopes, workers, orphans, contexts,
                   max_context_length, stopping>>

NextCreate ==
    \/ \E session_id \in SessionIds : CreateSessionBegin(session_id)
    \/ \E n \in 1..MaxCreates : CreateSessionEnd(n)

SpecCreate == Init /\ [][NextCreate]_vars


-----------------------------------------------------------------------------
(* Claims about execute() and the command registry, under SpecCommands.    *)

\* C1: a command for whose type neither its resolved session (its own id,
\* else the ambient one, else a new one) nor "global" has a handler makes
\* execute raise; no handler runs and no CommandResult is returned.
C1_NoHandlerRaises ==
    [][\A t \in CommandTypes, sid \in CommandSessions :
        LET none == ~HasCommandHandler(command_handlers, GLOBAL, t)
                    /\ IF sid # None
                       THEN ~HasCommandHandler(command_handlers, sid, t)
                       ELSE ctx.session_id # None =>
                            ~HasCommandHandler(command_handlers, ctx.session_id, t)
        IN (ExecuteBegin(t, sid) /\ none) =>
               /\ lastOp'.op = "execute"
               /\ lastOp'.raised
               /\ lastOp'.result = NoResult
               /\ stack' = stack]_vars

\* a nested execute of a command that inherited the ambient session raised
\* while handlers of other types or sessions were registered
C1_Witness ==
    /\ lastOp.op = "execute"
    /\ lastOp.raised
    /\ stack # <<>>
    /\ ctx.session_id = "A"
    /\ DOMAIN command_handlers = {GLOBAL, "A"}

C3_ContextRestored ==
    [][/\ (lastOp'.op = "execute" /\ lastOp'.raised
           /\ counters'.exec # counters.exec) => ctx' = ctx
       /\ Len(stack') < Len(stack) => ctx' = stack[Len(stack)].pre]_vars

-----------------------------------------------------------------------------
(* Claims about event dispatch, under SpecEvents.                          *)

\* the type of the event that was given to publish()
PublishedType(entry) ==
    IF entry.wrapper THEN entry.original_event_type ELSE entry.type

RegisteredLists(reg, s) == IF s \in DOMAIN reg THEN reg[s] ELSE <<>>

\* the handlers registered under session s, for any type
RegisteredUnder(reg, s) ==
    LET lists == RegisteredLists(reg, s)
    IN { lists[j].handlers[n] :
           <<j, n>> \in { p \in (1..Len(lists)) \X (1..(MaxEventRegs + 1)) :
                            p[2] <= Len(lists[p[1]].handlers) } }

\* the handlers registered under session s for type t or a supertype of t
RegisteredFor(reg, s, t) ==
    LET lists == RegisteredLists(reg, s)
    IN { lists[j].handlers[n] :
           <<j, n>> \in { p \in (1..Len(lists)) \X (1..(MaxEventRegs + 1)) :
                            /\ p[2] <= Len(lists[p[1]].handlers)
                            /\ IsSubclass(t, lists[p[1]].type) } }

\* the handlers registered under session s for exactly type t
RegisteredExactlyFor(reg, s, t) ==
    LET lists == RegisteredLists(reg, s)
    IN { lists[j].handlers[n] :
           <<j, n>> \in { p \in (1..Len(lists)) \X (1..(MaxEventRegs + 1)) :
                            /\ p[2] <= Len(lists[p[1]].handlers)
                            /\ lists[p[1]].type = t } }

\* the handlers a processing task made handler tasks for
Dispatched(task) ==
    { task.children[k].handler : k \in 1..Len(task.children) }

\* C4 (the claim as stated): when the running bus takes a published event E
\* from the queue, every handler registered for E's exact type under E's
\* session or "global" is invoked, and with E itself.
C4_HandlerOfExactTypeGetsEvent ==
    [][\A i \in 1..Len(tasks) :
        Dequeue(i) =>
            LET e == Head(event_queue)
            IN \A s \in {e.session_id, GLOBAL} :
                 \A h \in RegisteredExactlyFor(event_handlers, s, PublishedType(e)) :
                    /\ h \in Dispatched(tasks'[i])
                    /\ ~tasks'[i].event.wrapper]_vars

\* C5 (the claim as stated): every handler registered, under a published
\* event's session or "global", for the event's runtime type or a supertype
\* of it is invoked for the event, and no other handler is, the handlers of
\* the log wrapper's own type aside.
C5_PolymorphicDispatch ==
    [][\A i \in 1..Len(tasks) :
        Dequeue(i) =>
            LET e == Head(event_queue)
                T == PublishedType(e)
            IN /\ \A s \in {e.session_id, GLOBAL} :
                    RegisteredFor(event_handlers, s, T) \subseteq Dispatched(tasks'[i])
               /\ \A h \in Dispatched(tasks'[i]) :
                    \E s \in {e.session_id, GLOBAL} :
                        h \in RegisteredFor(event_handlers, s, T)
                               \cup RegisteredFor(event_handlers, s, e.type)]_vars

C10_StartWhileRunning ==
    [][/\ (Start /\ processing_task # 0) =>
              UNCHANGED <<processing_task, tasks, event_queue, dequeued>>
       /\ \A a, b \in 1..Len(dequeued) : a # b => dequeued[a] # dequeued[b]
       /\ event_queue # NoQueue =>
              /\ \A a \in 1..Len(event_queue), b \in 1..Len(dequeued) :
                    event_queue[a].pub # dequeued[b]
              /\ \A a, b \in 1..Len(event_queue) :
                    a # b => event_queue[a].pub # event_queue[b].pub]_vars

\* start() was called on the bus whose only task had already taken an event
\* and has another one queued
C10_Witness ==
    /\ lastOp.op = "start"
    /\ Len(tasks) = 1
    /\ processing_task = 1
    /\ dequeued # <<>>
    /\ event_queue # NoQueue
    /\ event_queue # <<>>

-----------------------------------------------------------------------------
(* Claims about sessions, under SpecSessions.                              *)

-----------------------------------------------------------------------------
(* More claims about execute(), under SpecCommands.                        *)

\* the session execute resolves for a command with session id sid
ExpectedSession(sid) ==
    IF sid # None THEN sid
    ELSE IF ctx.session_id # None THEN ctx.session_id
    ELSE Uuid4(counters.exec + 1)

-----------------------------------------------------------------------------
(* Claims about the processing loop, under SpecEvents.                     *)

\* the handler tasks of any processing task that have not had their first
\* turn yet
NotYetInvoked ==
    {<<j, k>> \in (1..Len(tasks)) \X (1..MaxEventRegs) :
        /\ k <= Len(tasks[j].children)
        /\ tasks[j].children[k].status = "created"}

HandlerList(reg, s, t) ==
    LET lists == RegisteredLists(reg, s)
    IN IF TypeIndex(lists, t) = 0 THEN <<>>
       ELSE lists[TypeIndex(lists, t)].handlers

C15_StopThenRestart ==
    [][/\ Stop =>
            /\ processing_task' = 0
            /\ ~lastOp'.raised
            /\ processing_task # 0 =>
                   /\ tasks'[processing_task].pc # "get"
                   /\ tasks'[processing_task].pc = "gather" =>
                          tasks'[processing_task].cancelling
            /\ processing_task = 0 =>
                   UNCHANGED <<command_handlers, event_handlers, event_queue,
                               tasks, ctx, stack, counters, dequeued>>
       /\ (Start /\ processing_task = 0) =>
            /\ Len(tasks') = Len(tasks) + 1
            /\ processing_task' = Len(tasks')
            /\ tasks'[processing_task'] = TaskIn(ctx)
            /\ \A i \in 1..Len(tasks) : tasks'[i] = tasks[i]
            /\ ~lastOp'.raised]_vars

\* after start, stop, start, stop: the first stop() gave up waiting for a
\* handler that is still running, the second ended its task in time
C15_Witness ==
    /\ processing_task = 0
    /\ Len(tasks) = 2
    /\ tasks[1].pc = "gather"
    /\ tasks[1].cancelling
    /\ \E k \in 1..Len(tasks[1].children) : tasks[1].children[k].status = "running"
    /\ tasks[2].pc = "finished"

-----------------------------------------------------------------------------
(* Claims about publish(), under SpecPublish.                              *)

\* C16: publish() returns without raising on a bus that was never started,
\* is running or was stopped, for events that serialize and events that do
\* not, and whatever the handlers of earlier events did; it runs no handler
\* itself, and on a bus that has a queue the event is queued even when its
\* serialization failed.
C16_PublishNeverRaises ==
    [][\A t \in PublishTypes, s \in {None, "A"}, ok \in BOOLEAN :
        LET ev == IF ok THEN NewEvent(counters.event + 1, t, s)
                  ELSE UnserializableEvent(counters.event + 1, t, s)
        IN PublishObject(ev) =>
              /\ ~lastOp'.raised
              /\ lastOp' = ReturnedNone
              /\ tasks' = tasks
              /\ counters'.errors = counters.errors
              /\ event_queue = NoQueue => event_queue' = NoQueue
              /\ event_queue # NoQueue =>
                     /\ Len(event_queue') = Len(event_queue) + 1
                     /\ event_queue'[Len(event_queue')].pub = ev.id]_vars

\* a handler of the first event raised, the bus was stopped, and an event
\* that does not serialize was published to the stopped bus: both calls
\* returned and the second event is queued
C16_Witness ==
    /\ counters.event = 2
    /\ counters.errors = 1
    /\ dequeued = <<1>>
    /\ processing_task = 0
    /\ Len(event_queue) = 1
    /\ event_queue[1].pub = 2
    /\ event_queue[1].original_event_data = "Serialization failed"
    /\ ~lastOp.raised

-----------------------------------------------------------------------------
(* Claims about session scopes, under SpecScopes.                          *)

\* C17: when a session scope exits, with its body completed or with an
\* exception passing through it, no command handler and no event handler
\* remains registered under its session id, and the handlers of every other
\* session and of "global" are as they were.
C17_ScopeExitUnregisters ==
    [][\A s \in SessionNames, exc \in BOOLEAN :
        SessionExit(s, exc) =>
            /\ s \notin DOMAIN command_handlers'
            /\ s \notin DOMAIN event_handlers'
            /\ DOMAIN command_handlers' = DOMAIN command_handlers \ {s}
            /\ DOMAIN event_handlers' = DOMAIN event_handlers \ {s}
            /\ \A o \in DOMAIN command_handlers' :
                   command_handlers'[o] = command_handlers[o]
            /\ \A o \in DOMAIN event_handlers' :
                   event_handlers'[o] = event_handlers[o]]_vars

\* the scope of "A" registered handlers of both kinds and was left by an
\* exception: nothing of "A" remains, while the open scope "B" and "global"
\* keep theirs
C17_Witness ==
    /\ DOMAIN scopes = {"A", "B"}
    /\ scopes["A"] = "raised"
    /\ scopes["B"] = "open"
    /\ counters.reg = 2
    /\ DOMAIN event_handlers = {GLOBAL}
    /\ Len(event_handlers[GLOBAL]) = 1
    /\ Len(event_handlers[GLOBAL][1].handlers) = 1
    /\ DOMAIN command_handlers = {GLOBAL, "B"}
    /\ lastOp = ReturnedNone

-----------------------------------------------------------------------------
(* Claims about execute() called by event handlers, under SpecHandlers.    *)

C20_AmbientSessionInHandlers ==
    [][\A i \in 1..Len(tasks) :
        /\ \A t \in CommandTypes :
              (/\ HandlerExecuteBegin(i, 1, t, None)
               /\ tasks[i].event.session_id # None
               /\ tasks[i].children[1].stack = <<>>
               /\ Len(tasks'[i].children[1].stack) > Len(tasks[i].children[1].stack))
              => LET after == tasks'[i].children[1]
                 IN after.stack[Len(after.stack)].command.session_id
                        = tasks[i].event.session_id
        /\ Dequeue(i) =>
              /\ tasks[i].ctx.session_id = tasks[i].session_token
              /\ \A k \in 1..Len(tasks'[i].children) :
                    tasks'[i].children[k].ctx.session_id =
                        IF Head(event_queue).session_id # None
                        THEN Head(event_queue).session_id
                        ELSE tasks[i].session_token]_vars

-----------------------------------------------------------------------------
(* Claims about the session of a command and of the events its handler     *)
(* publishes, under SpecChain.                                             *)

-----------------------------------------------------------------------------
(* Claims about concurrent execute() calls, under SpecWorkers.             *)

-----------------------------------------------------------------------------
\* the events taken from the queue that a task is still dispatching
InDispatch == {i \in 1..Len(tasks) : tasks[i].pc = "gather"}

\* processing task i ends the dispatch of its event in this step
EndsDispatch(i) ==
    /\ i \in InDispatch
    /\ tasks'[i].pc # "gather"

\* the events taken from the queue and marked done
MarkedDone ==
    {dequeued[n] : n \in 1..Len(dequeued)} \ {tasks[i].event.pub : i \in InDispatch}

\* C21: every event taken from the queue is marked done exactly once, after
\* all of its handler tasks have settled, whatever the outcome of the
\* dispatch; never more events are marked done than were taken, and no
\* event that was taken is in the queue again
C21_MarkedDoneOnce ==
    /\ [](/\ counters.done = Len(dequeued) - Cardinality(InDispatch)
          /\ counters.done <= Len(dequeued)
          /\ event_queue # NoQueue =>
                \A n \in 1..Len(event_queue) :
                    ~InSeq(event_queue[n].pub, dequeued)
          /\ \A k \in 1..Len(orphans) :
                orphans[k].event \in MarkedDone => Settled(orphans[k]))
    /\ [][\A i \in 1..Len(tasks) :
            EndsDispatch(i) =>
                \A k \in 1..Len(tasks[i].children) :
                    \/ Settled(tasks[i].children[k])
                    \/ /\ processing_task = i
                       /\ processing_task' = 0
                       /\ Settled(CancelChildren(tasks[i].children, {})[k])]_vars

-----------------------------------------------------------------------------
RECURSIVE CountIn(_, _)
\* how many entries of the handler list are registrations of function fn
CountIn(handlers, fn) ==
    IF handlers = <<>> THEN 0
    ELSE (IF Head(handlers).fn = fn THEN 1 ELSE 0) + CountIn(Tail(handlers), fn)

\* the registrations of fn under session s for a type that matches type t
MatchingRegistrations(reg, s, t, fn) ==
    IF s \in DOMAIN reg THEN CountIn(SessionHandlers(reg[s], t), fn) ELSE 0

\* the handler tasks that run function fn
Invocations(children, fn) ==
    Cardinality({k \in 1..Len(children) : children[k].handler.fn = fn})

\* C22: for an event of session S a handler is invoked once per matching
\* registration under S, plus once per matching registration under "global"
\* unless it is among the session's matching handlers, whether it is a
\* coroutine function or not, also under several matching types and for an
\* event of session "global"
C22_InvocationMultiplicity ==
    [][\A i \in 1..Len(tasks) :
          (tasks[i].pc = "get" /\ tasks'[i].pc = "gather") =>
              \A fn \in {"handle_event"} \cup SyncHandlers :
                  LET e == tasks'[i].event
                      own == IF e.session_id = None THEN 0
                             ELSE MatchingRegistrations(event_handlers,
                                      e.session_id, e.type, fn)
                      global == MatchingRegistrations(event_handlers, GLOBAL,
                                                      e.type, fn)
                  IN Invocations(tasks'[i].children, fn) =
                         own + (IF own > 0 THEN 0 ELSE global)]_vars

-----------------------------------------------------------------------------
\* C23: after publish(event) has returned for an event whose metadata is a
\* mapping, the metadata has a "session_id" entry, also for an event without
\* session id published outside any session, and every entry the metadata
\* had before has kept its value
C23_SessionInMetadata ==
    (lastOp.op = "publish" /\ ~lastOp.raised) =>
        /\ "session_id" \in DOMAIN lastOp.metadata
        /\ \A k \in DOMAIN lastOp.event.metadata :
              /\ k \in DOMAIN lastOp.metadata
              /\ lastOp.metadata[k] = lastOp.event.metadata[k]

-----------------------------------------------------------------------------
\* C24: for every max_context_length >= 1, after any sequence of
\* add_message calls a conversation holds at most max_context_length
\* messages; an add_message that trims keeps the conversation's first
\* message once, at position 0, followed by the most recently added
\* messages in their order
C24_ContextIsBounded ==
    /\ [](\A c \in DOMAIN contexts : Len(contexts[c]) <= max_context_length)
    /\ [][\A c \in DOMAIN contexts' :
            (/\ c \in DOMAIN contexts
             /\ contexts'[c] # contexts[c]
             /\ Len(contexts[c]) = max_context_length) =>
                LET appended == Append(contexts[c], MessagesAdded')
                    n == max_context_length
                IN /\ Len(contexts'[c]) = n
                   /\ contexts'[c][1] = contexts[c][1]
                   /\ \A k \in 2..n : contexts'[c][k] # contexts[c][1]
                   /\ \A k \in 2..n :
                         contexts'[c][k] = appended[Len(appended) - n + k]]_vars

-----------------------------------------------------------------------------
\* C30: the ids create_session has returned are pairwise distinct, also for
\* calls that were suspended together between generating their id and
\* storing the session, and no stored session is replaced by a later
\* create_session
C30_DistinctSessionIds ==
    /\ [](\A n \in 1..Len(creating), k \in 1..Len(creating) :
             (/\ n # k
              /\ creating[n].pc = "returned"
              /\ creating[k].pc = "returned") =>
                 creating[n].session_id # creating[k].session_id)
    /\ [][\A id \in DOMAIN active_sessions :
             active_sessions'[id] = active_sessions[id]]_vars

-----------------------------------------------------------------------------
\* the event with this id is in the queue or was taken from it
Held(id) ==
    \/ InSeq(id, dequeued)
    \/ event_queue # NoQueue /\ \E n \in 1..Len(event_queue) : event_queue[n].pub = id

\* C25: an event published before the first start(), when there is no
\* queue yet, is dropped: publish returns normally and leaves no queue, and
\* the event is never in the queue nor taken from it, also after a start()
C25_EarlyEventIsDropped ==
    /\ [][(event_queue = NoQueue /\ counters'.event # counters.event) =>
             (event_queue' = NoQueue /\ ~lastOp'.raised)]_vars
    /\ \A id \in 1..MaxEvents :
          []((event_queue = NoQueue /\ counters.event >= id) => [](~Held(id)))

\* the bus runs with a handler for every event, and the one event published
\* so far, before start(), is neither queued nor taken
C25_Witness ==
    /\ processing_task # 0
    /\ counters.event = 1
    /\ event_queue = <<>>
    /\ dequeued = <<>>
    /\ RegisteredFor(event_handlers, GLOBAL, "EventLogWrapper") # {}

-----------------------------------------------------------------------------
\* the event with this id waits in the queue
Queued(id) ==
    /\ event_queue # NoQueue
    /\ \E n \in 1..Len(event_queue) : event_queue[n].pub = id

-----------------------------------------------------------------------------
\* the processing tasks that are alive and take events from the queue:
\* those that have not ended and were not cancelled
LiveLoops == {i \in 1..Len(tasks) : tasks[i].pc # "finished" /\ ~tasks[i].cancelling}

\* C28: at every moment at most one processing task is alive and taking
\* events from the queue, for every interleaving of start() and stop()
\* calls, also when tasks call them concurrently
C28_OneProcessingLoop == Cardinality(LiveLoops) <= 1

-----------------------------------------------------------------------------
\* the events that have a handler task which has not settled
EventsInHandling ==
    {tasks[i].event.pub : i \in {j \in 1..Len(tasks) :
        \E k \in 1..Len(tasks[j].children) : ~Settled(tasks[j].children[k])}}

\* C27: dispatch is serial across events: the handlers of the next queued
\* event are started only after every handler of the current one has
\* settled, so the handlers that have not settled are all of one event,
\* and no event is taken from the queue while a handler has not settled
C27_SerialDispatch ==
    /\ [](Cardinality(EventsInHandling) <= 1)
    /\ [][dequeued' # dequeued => EventsInHandling = {}]_vars

-----------------------------------------------------------------------------
\* what the step has put on the queue: the span_context and status of the
\* new entries that are trace events, with the id of their event
TraceEventsAdded ==
    IF event_queue = NoQueue \/ Len(event_queue') <= Len(event_queue) THEN <<>>
    ELSE LET added == SubSeq(event_queue', Len(event_queue) + 1, Len(event_queue'))
         IN [n \in 1..Len(added) |->
                [ pub |-> added[n].pub,
                  original_event_type |-> added[n].original_event_type,
                  span_context |-> added[n].trace.span_context,
                  status |-> added[n].trace.status ]]

\* the trace ids of the entries in the queue and of the spans in progress
TraceIdsInUse ==
    {event_queue[n].trace.span_context.trace_id :
        n \in 1..(IF event_queue = NoQueue THEN 0 ELSE Len(event_queue))}
    \cup {stack[n].span_context.trace_id : n \in 1..Len(stack)}

====
